---------------------------- MODULE Spec2Model ----------------------------
(***************************************************************************)
(* Model of the geometry kernel of mball_maker_script.py: sphere_pts (the  *)
(* shell point sampler), symmetrize and the hierarchy loop of              *)
(* make_objects.                                                           *)
(*                                                                         *)
(* Numbers.  The script computes with binary floating point.  Here a       *)
(* coordinate is an integer: lengths are counted in units of 0.2/One^2,    *)
(* where One is the table value of cos(0), and a radius is counted in      *)
(* units of 0.2 (meta_d = (1.2, .8, .4) is <<6, 4, 2>>).  sin and cos are  *)
(* tables over the multiples of pi/20, rounded to 1/One.  The three table  *)
(* entries whose exact value is 0 but whose float value is not             *)
(* (cos(pi/2) = 6.1e-17, cos(3pi/2) = -1.8e-16, sin(pi) = 1.2e-16) keep    *)
(* the float's sign as 1, -3 and 2 units, so that a candidate is on the    *)
(* same side of the plane x = 0 here as in the script.  A min_dist at      *)
(* which some candidate's exact |x| equals min_dist without being exactly  *)
(* representable (min_dist = radius/4) is decided by float rounding in the *)
(* script and is kept out of the inputs drawn below.  Where the exact sum  *)
(* a[0] + previous[0] of the side filter is nearer to 0 than the tables'   *)
(* rounding, a candidate may pass the filter here and not in the script or *)
(* the reverse; the comparisons themselves are the script's.               *)
(*                                                                         *)
(* Randomness.  random.shuffle is a permutation fixed by the state of the  *)
(* generator; a run starts from one of NumSeeds generator states and each  *)
(* shuffle moves the generator on.                                         *)
(***************************************************************************)
EXTENDS Integers, Sequences, FiniteSets

VARIABLES
    pc,           \* position in make_objects, or in the single call of a harness
    asymmetric,   \* make_objects argument
    min_dist,     \* make_objects / sphere_pts argument
    i,            \* level index of the outer loop (0-based, as in the script)
    q,            \* index of the inner loop (0-based)
    n_q,          \* len(loc_pts) as evaluated by range() when the inner loop starts
    loc_pts,      \* active point list
    cur_loc_pts,  \* the list object loc_pts named when the level started
    meta_coords,  \* accumulated blobs [x, y, z, r]
    rng,          \* state of the random generator that random.shuffle draws from
    produced,     \* history: untagged points appended during the current level
    called,       \* history: parents handed to sphere_pts during the current level
    raw_coords,   \* history: meta_coords as it was before the symmetrize step
    sp_args,      \* harness: arguments of one sphere_pts call
    sp_out,       \* harness: list returned by that call
    sy_loc,       \* harness: argument of symmetrize
    sy_out,       \* harness: symmetrize(sy_loc)
    sy_out2       \* harness: symmetrize(symmetrize(sy_loc))

vars == << pc, asymmetric, min_dist, i, q, n_q, loc_pts, cur_loc_pts,
           meta_coords, rng, produced, called, raw_coords,
           sp_args, sp_out, sy_loc, sy_out, sy_out2 >>

mk_vars == << asymmetric, min_dist, i, q, n_q, loc_pts, cur_loc_pts,
              meta_coords, rng, produced, called, raw_coords >>
sp_vars == << sp_args, sp_out >>
sy_vars == << sy_loc, sy_out, sy_out2 >>

---------------------------------------------------------------------------
(* Bounds of the model.                                                    *)

\* number of generator states a run can start from
NumSeeds == 6
\* largest n_pts handed to a single sphere_pts call of the harness
MaxPts == 8
\* longest list handed to symmetrize by the harness
MaxLen == 4

---------------------------------------------------------------------------
(* Arithmetic.                                                             *)

\* math.sin(k*pi/20), k = 0..39
SinTab ==
    << 0, 1564, 3090, 4540, 5878, 7071, 8090, 8910, 9511, 9877,
       10000, 9877, 9511, 8910, 8090, 7071, 5878, 4540, 3090, 1564,
       2, -1564, -3090, -4540, -5878, -7071, -8090, -8910, -9511, -9877,
       -10000, -9877, -9511, -8910, -8090, -7071, -5878, -4540, -3090, -1564 >>

\* math.cos(k*pi/20), k = 0..39
CosTab ==
    << 10000, 9877, 9511, 8910, 8090, 7071, 5878, 4540, 3090, 1564,
       1, -1564, -3090, -4540, -5878, -7071, -8090, -8910, -9511, -9877,
       -10000, -9877, -9511, -8910, -8090, -7071, -5878, -4540, -3090, -1564,
       -3, 1564, 3090, 4540, 5878, 7071, 8090, 8910, 9511, 9877 >>

One == CosTab[1]

\* sin(theta*stack) with theta = pi/n_smp, and cos likewise
sin_theta(n_smp, stack) == SinTab[(20 \div n_smp) * stack + 1]
cos_theta(n_smp, stack) == CosTab[(20 \div n_smp) * stack + 1]
\* sin(phi*slice) with phi = 2*pi/n_smp, and cos likewise
sin_phi(n_smp, slice) == SinTab[(40 \div n_smp) * slice + 1]
cos_phi(n_smp, slice) == CosTab[(40 \div n_smp) * slice + 1]

\* the length 0.05, the default of min_dist
MinDistStep == (One * One) \div 4

Min(a, b) == IF a < b THEN a ELSE b

---------------------------------------------------------------------------
(* sphere_pts                                                              *)

\* one candidate [x, y, z]
vertex(n_smp, radius, stack, slice) ==
    LET stackRadius == sin_theta(n_smp, stack) * radius
    IN  << cos_phi(n_smp, slice) * stackRadius,
           sin_phi(n_smp, slice) * stackRadius,
           cos_theta(n_smp, stack) * radius * One >>

\* the candidate list in generation order: stack outer, slice inner
vertices(n_smp, radius) ==
    [ j \in 1..(n_smp * n_smp) |->
        vertex(n_smp, radius, (j - 1) \div n_smp, (j - 1) % n_smp) ]

\* The permutation random.shuffle applies when the generator is in state s:
\* position j of the shuffled list takes the element at index
\* (mult*(j-1) + off) mod N, mult coprime to N.  State 0 leaves the list as is.
shuffle_mult(s) == LET m == 2 * s + 1 IN IF m % 5 = 0 THEN m + 2 ELSE m
shuffle_off(s) == 37 * s
shuffle(v, s) ==
    [ j \in 1..Len(v) |->
        v[((shuffle_mult(s) * (j - 1) + shuffle_off(s)) % Len(v)) + 1] ]

\* v[0:k]  (slice_mut: the slice taken one element too long)
slice_mut(v, k) == SubSeq(v, 1, Min(k + 1, Len(v)))
slice(v, k) == SubSeq(v, 1, Min(k, Len(v)))

\* the side filter for an off-plane parent; the list is left alone on the plane
\* (side_filter_mut: the filter left out)
side_filter_mut(v, previous) == v
side_filter(v, previous) ==
    LET neg(a) == a[1] + previous[1] < 0
        pos(a) == a[1] + previous[1] > 0
    IN  IF previous[1] < 0 THEN SelectSeq(v, neg)
        ELSE IF previous[1] > 0 THEN SelectSeq(v, pos)
        ELSE v

\* the candidates beyond min_dist on each side, for a parent on the plane
\* (left_pool_mut: the left pool taken with <= instead of <)
left_pool_mut(v, md) == LET t(a) == a[1] <= -md IN SelectSeq(v, t)
left_pool(v, md) == LET t(a) == a[1] < -md IN SelectSeq(v, t)
right_pool(v, md) == LET t(a) == a[1] > md IN SelectSeq(v, t)

\* ok = FALSE: an assert of the function failed, nothing is returned
sphere_pts(n_pts, n_smp, radius, md, previous, s) ==
    IF n_pts % 2 # 0 THEN [ok |-> FALSE, locations |-> << >>]
    ELSE
      LET vs == side_filter(shuffle(vertices(n_smp, radius), s), previous)
      IN  IF previous[1] = 0
          THEN LET left_v  == left_pool(vs, md)
                   right_v == right_pool(vs, md)
               IN  IF Len(left_v) # Len(right_v)
                   THEN [ok |-> FALSE, locations |-> << >>]
                   ELSE [ok |-> TRUE,
                         locations |-> slice(left_v, n_pts \div 2)
                                       \o slice(right_v, n_pts \div 2)]
          ELSE [ok |-> TRUE, locations |-> slice(vs, n_pts)]

---------------------------------------------------------------------------
(* symmetrize                                                              *)

\* [x * -1, y, z, r]  (mirror_mut: x not negated)
mirror_mut(b) == << b[1], b[2], b[3], b[4] >>
mirror(b) == << b[1] * (-1), b[2], b[3], b[4] >>

\* [a for a in loc if a[0] < 0]  (l_pts_of_mut: <= instead of <)
l_pts_of_mut(loc) == LET t(a) == a[1] <= 0 IN SelectSeq(loc, t)
l_pts_of(loc) == LET t(a) == a[1] < 0 IN SelectSeq(loc, t)

\* ok = FALSE: the length assert failed  (symmetrize_mut: the assert left out)
symmetrize_mut(loc) ==
    LET l_pts == l_pts_of(loc)
        r_pts == [ k \in 1..Len(l_pts) |-> mirror(l_pts[k]) ]
    IN  [ok |-> TRUE, out |-> l_pts \o r_pts]
symmetrize(loc) ==
    LET l_pts == l_pts_of(loc)
        r_pts == [ k \in 1..Len(l_pts) |-> mirror(l_pts[k]) ]
        out   == l_pts \o r_pts
    IN  IF Len(out) = Len(loc) THEN [ok |-> TRUE, out |-> out]
        ELSE [ok |-> FALSE, out |-> << >>]

---------------------------------------------------------------------------
(* make_objects, up to the blob list it hands to the scene construction    *)

num_smp == 20
meta_n == << 8, 4, 2 >>
\* blob radii (.6, .4, .2) and shell radii (1.2, .8, .4), in units of 0.2
meta_r == << 3, 2, 1 >>
meta_d == << 6, 4, 2 >>

\* min_dist values a run is started with, in units of 0.05
MinDistIdxs == {0, 1, 23, 24}

\* [a + p[0], b + p[1], c + p[2], r]  (translate_mut: the parent not added)
translate_mut(a, p, r) == << a[1], a[2], a[3], r >>
translate(a, p, r) == << a[1] + p[1], a[2] + p[2], a[3] + p[3], r >>

\* x[0:3]
untag(x) == << x[1], x[2], x[3] >>

\* list.remove(d): the first element equal to d goes
\* (remove_mut: the last element goes instead)
remove_mut(l, d) == SubSeq(l, 1, Len(l) - 1)
remove(l, d) ==
    LET k == CHOOSE k \in 1..Len(l) :
                 l[k] = d /\ \A m \in 1..(k - 1) : l[m] # d
    IN  SubSeq(l, 1, k - 1) \o SubSeq(l, k + 1, Len(l))

\* for d in ds: l.remove(d)  (remove_each_mut: nothing removed)
remove_each_mut(l, ds) == l
RECURSIVE remove_each(_, _)
remove_each(l, ds) ==
    IF ds = << >> THEN l ELSE remove_each(remove(l, Head(ds)), Tail(ds))

\* the generator after one shuffle
next_rng(s) == (s + 1) % NumSeeds

Idle_sp == sp_args = << >> /\ sp_out = << >>
Idle_sy == sy_loc = << >> /\ sy_out = << >> /\ sy_out2 = << >>

Init ==
    /\ pc = "for_i"
    /\ asymmetric \in BOOLEAN
    /\ min_dist \in { k * MinDistStep : k \in MinDistIdxs }
    /\ rng \in 0..(NumSeeds - 1)
    /\ i = 0
    /\ q = 0
    /\ n_q = 0
    /\ loc_pts = << << 0, 0, 0 >> >>
    /\ cur_loc_pts = << >>
    /\ meta_coords = << >>
    /\ produced = << >>
    /\ called = << >>
    /\ raw_coords = << >>
    /\ Idle_sp
    /\ Idle_sy

\* for i in range(len(meta_n)): cur_loc_pts = loc_pts; for q in range(len(loc_pts))
BeginLevel ==
    /\ pc = "for_i"
    /\ i < Len(meta_n)
    /\ cur_loc_pts' = loc_pts
    /\ q' = 0
    /\ n_q' = Len(loc_pts)
    /\ produced' = << >>
    /\ called' = << >>
    /\ pc' = "for_q"
    /\ UNCHANGED << asymmetric, min_dist, i, loc_pts, meta_coords, rng,
                    raw_coords, sp_vars, sy_vars >>

\* one pass of the inner loop body
SampleParent ==
    /\ pc = "for_q"
    /\ q < n_q
    /\ \E res \in { sphere_pts(meta_n[i + 1], num_smp, meta_d[i + 1], min_dist,
                               loc_pts[q + 1], rng) } :
         \E loc_tmp \in { [ k \in 1..Len(res.locations) |->
                              translate(res.locations[k], loc_pts[q + 1],
                                        meta_r[i + 1]) ] } :
           /\ called' = Append(called, loc_pts[q + 1])
           /\ rng' = next_rng(rng)
           /\ IF res.ok
              THEN /\ loc_pts' = loc_pts \o [ k \in 1..Len(loc_tmp) |-> untag(loc_tmp[k]) ]
                   /\ meta_coords' = meta_coords \o loc_tmp
                   /\ produced' = produced \o [ k \in 1..Len(loc_tmp) |-> untag(loc_tmp[k]) ]
                   /\ q' = q + 1
                   /\ pc' = "for_q"
              ELSE /\ pc' = "assert_sphere_pts"
                   /\ UNCHANGED << loc_pts, meta_coords, produced, q >>
    /\ UNCHANGED << asymmetric, min_dist, i, n_q, cur_loc_pts, raw_coords,
                    sp_vars, sy_vars >>

\* for d in cur_loc_pts: loc_pts.remove(d)
EndLevel ==
    /\ pc = "for_q"
    /\ q = n_q
    /\ loc_pts' = remove_each(loc_pts, cur_loc_pts)
    /\ i' = i + 1
    /\ pc' = "for_i"
    /\ UNCHANGED << asymmetric, min_dist, q, n_q, cur_loc_pts, meta_coords,
                    rng, produced, called, raw_coords, sp_vars, sy_vars >>

\* if not asymmetric: meta_coords = symmetrize(meta_coords)
Symmetrize ==
    /\ pc = "for_i"
    /\ i = Len(meta_n)
    /\ ~asymmetric
    /\ raw_coords' = meta_coords
    /\ LET res == symmetrize(meta_coords)
       IN  IF res.ok
           THEN meta_coords' = res.out /\ pc' = "built"
           ELSE meta_coords' = meta_coords /\ pc' = "assert_symmetrize"
    /\ UNCHANGED << asymmetric, min_dist, i, q, n_q, loc_pts, cur_loc_pts,
                    rng, produced, called, sp_vars, sy_vars >>

KeepAsymmetric ==
    /\ pc = "for_i"
    /\ i = Len(meta_n)
    /\ asymmetric
    /\ raw_coords' = meta_coords
    /\ pc' = "built"
    /\ UNCHANGED << asymmetric, min_dist, i, q, n_q, loc_pts, cur_loc_pts,
                    meta_coords, rng, produced, called, sp_vars, sy_vars >>

Next == BeginLevel \/ SampleParent \/ EndLevel \/ Symmetrize \/ KeepAsymmetric

Spec == Init /\ [][Next]_vars

---------------------------------------------------------------------------
(* One call of sphere_pts on arguments drawn from small sets               *)

\* grid resolutions: the divisors of 20, whose angles the tables hold
NSmps == {1, 2, 4, 5, 10, 20}
\* x of the parent: -0.4, -0.05, 0, 0.05, 0.4
PrevXs == { -2 * One * One, -MinDistStep, 0, MinDistStep, 2 * One * One }

Idle_mk ==
    /\ asymmetric = FALSE /\ min_dist = 0 /\ i = 0 /\ q = 0 /\ n_q = 0
    /\ loc_pts = << >> /\ cur_loc_pts = << >> /\ meta_coords = << >>
    /\ rng = 0 /\ produced = << >> /\ called = << >> /\ raw_coords = << >>

SamplerInit ==
    /\ pc = "sp_call"
    /\ sp_args \in [ n_pts : 0..MaxPts,
                     n_smp : NSmps,
                     radius : { meta_d[k] : k \in 1..Len(meta_d) },
                     min_dist : { k * MinDistStep : k \in MinDistIdxs },
                     previous : { << x, 0, 0 >> : x \in PrevXs },
                     s : 0..(NumSeeds - 1) ]
    /\ sp_out = << >>
    /\ Idle_mk
    /\ Idle_sy

sp_result ==
    sphere_pts(sp_args.n_pts, sp_args.n_smp, sp_args.radius, sp_args.min_dist,
               sp_args.previous, sp_args.s)

SamplerReturns ==
    /\ pc = "sp_call"
    /\ \E res \in { sp_result } :
         /\ res.ok
         /\ sp_out' = res.locations
    /\ pc' = "sp_returned"
    /\ UNCHANGED << mk_vars, sp_args, sy_vars >>

SamplerAsserts ==
    /\ pc = "sp_call"
    /\ \E res \in { sp_result } : ~res.ok
    /\ pc' = "sp_assert"
    /\ UNCHANGED << mk_vars, sp_vars, sy_vars >>

SamplerNext == SamplerReturns \/ SamplerAsserts

SamplerSpec == SamplerInit /\ [][SamplerNext]_vars

---------------------------------------------------------------------------
(* symmetrize, applied once and then to its own output                     *)

\* blobs [x, y, z, r] the argument lists are made of
SyBlobs ==
    { << -2, 1, 0, 1 >>, << -1, 0, 0, 1 >>, << 0, 0, 0, 1 >>,
      << 1, 0, 0, 1 >>, << 1, 1, 0, 1 >>, << 2, 1, 0, 1 >> }

SymInit ==
    /\ pc = "sy_call"
    /\ sy_loc \in UNION { [1..n -> SyBlobs] : n \in 0..MaxLen }
    /\ sy_out = << >>
    /\ sy_out2 = << >>
    /\ Idle_mk
    /\ Idle_sp

SymReturns ==
    /\ pc = "sy_call"
    /\ \E res \in { symmetrize(sy_loc) } :
         /\ res.ok
         /\ sy_out' = res.out
    /\ pc' = "sy_once"
    /\ UNCHANGED << mk_vars, sp_vars, sy_loc, sy_out2 >>

SymAsserts ==
    /\ pc = "sy_call"
    /\ \E res \in { symmetrize(sy_loc) } : ~res.ok
    /\ pc' = "sy_assert"
    /\ UNCHANGED << mk_vars, sp_vars, sy_vars >>

SymAgain ==
    /\ pc = "sy_once"
    /\ \E res \in { symmetrize(sy_out) } :
         IF res.ok
         THEN sy_out2' = res.out /\ pc' = "sy_twice"
         ELSE sy_out2' = sy_out2 /\ pc' = "sy_assert_again"
    /\ UNCHANGED << mk_vars, sp_vars, sy_loc, sy_out >>

SymNext == SymReturns \/ SymAsserts \/ SymAgain

SymSpec == SymInit /\ [][SymNext]_vars

---------------------------------------------------------------------------
(* Properties of one sphere_pts call (SamplerSpec)                         *)

sp_called == pc \in {"sp_returned", "sp_assert"}
sp_even == sp_args.n_pts % 2 = 0
sp_px == sp_args.previous[1]
sp_half == sp_args.n_pts \div 2

\* how many points of a list lie beyond the plane by more than md, per side
NumLeftOf(l, md) == Cardinality({ k \in 1..Len(l) : l[k][1] < -md })
NumRightOf(l, md) == Cardinality({ k \in 1..Len(l) : l[k][1] > md })

\* size of the two side pools of the candidate grid of the call
sp_pool_left == NumLeftOf(vertices(sp_args.n_smp, sp_args.radius), sp_args.min_dist)
sp_pool_right == NumRightOf(vertices(sp_args.n_smp, sp_args.radius), sp_args.min_dist)

\* C1 as stated: for every even n_pts and a parent with x = 0, sphere_pts
\* returns exactly n_pts points, n_pts/2 with x < -min_dist and n_pts/2 with
\* x > min_dist.  Stated for the grid resolution make_objects uses, where it
\* already fails.
C1_Original ==
    (sp_called /\ sp_even /\ sp_px = 0 /\ sp_args.n_smp = num_smp) =>
        /\ pc = "sp_returned"
        /\ Len(sp_out) = sp_args.n_pts
        /\ NumLeftOf(sp_out, sp_args.min_dist) = sp_half
        /\ NumRightOf(sp_out, sp_args.min_dist) = sp_half

\* C1 amended: for even n_pts and a parent with x = 0, sphere_pts fails its
\* assertion exactly when the candidates with x < -min_dist and those with
\* x > min_dist differ in number; otherwise it returns min(n_pts/2, p) points
\* with x < -min_dist and as many with x > min_dist and no others, p being the
\* common size of the two pools, so exactly n_pts points when p >= n_pts/2.
C1_Amended ==
    (sp_called /\ sp_even /\ sp_px = 0) =>
        /\ (pc = "sp_assert") <=> (sp_pool_left # sp_pool_right)
        /\ (pc = "sp_returned") =>
              /\ NumLeftOf(sp_out, sp_args.min_dist) = Min(sp_half, sp_pool_left)
              /\ NumRightOf(sp_out, sp_args.min_dist) = Min(sp_half, sp_pool_left)
              /\ Len(sp_out) = 2 * Min(sp_half, sp_pool_left)
              /\ (sp_pool_left >= sp_half => Len(sp_out) = sp_args.n_pts)

\* the call of the spec's scenario shape: a full, evenly split shell on grid 20
C1_Witness ==
    /\ pc = "sp_returned"
    /\ sp_px = 0
    /\ sp_args.n_smp = num_smp
    /\ sp_args.n_pts = MaxPts - (MaxPts % 2)
    /\ sp_args.n_pts > 0
    /\ Len(sp_out) = sp_args.n_pts
    /\ NumLeftOf(sp_out, sp_args.min_dist) = sp_half

\* x of a returned point after the translation make_objects applies to it
sp_translated_x(k) == translate(sp_out[k], sp_args.previous, 0)[1]

\* C2: for a parent with x < 0 every returned point, translated by the
\* parent, has x < 0; for a parent with x > 0 every one has x > 0.
C2_SameSide ==
    (pc = "sp_returned") =>
        /\ sp_px < 0 => \A k \in 1..Len(sp_out) : sp_translated_x(k) < 0
        /\ sp_px > 0 => \A k \in 1..Len(sp_out) : sp_translated_x(k) > 0

\* a returned point that is on the far side of the plane before translation
C2_Witness ==
    /\ pc = "sp_returned"
    /\ sp_px < 0
    /\ \E k \in 1..Len(sp_out) : sp_out[k][1] > 0 /\ sp_translated_x(k) < 0

\* the side-filtered candidates of the call, in shuffled order
sp_survivors ==
    LET same(a) == IF sp_px < 0 THEN a[1] + sp_px < 0 ELSE a[1] + sp_px > 0
    IN  SelectSeq(shuffle(vertices(sp_args.n_smp, sp_args.radius), sp_args.s), same)

\* C8: for an off-plane parent (and even n_pts) sphere_pts raises nothing and
\* returns the first min(n_pts, number of survivors) side-filtered candidates
\* in shuffled order.
C8_FirstSurvivors ==
    (sp_called /\ sp_even /\ sp_px # 0) =>
        /\ pc = "sp_returned"
        /\ \A surv \in { sp_survivors } :
              /\ Len(sp_out) = Min(sp_args.n_pts, Len(surv))
              /\ \A k \in 1..Len(sp_out) : sp_out[k] = surv[k]

\* starvation: fewer survivors than asked for, and a short list comes back
C8_Witness ==
    /\ pc = "sp_returned"
    /\ sp_px # 0
    /\ Len(sp_survivors) > 0
    /\ Len(sp_survivors) < sp_args.n_pts
    /\ Len(sp_out) = Len(sp_survivors)

\* C10 as stated: the points one call returns are pairwise distinct positions,
\* for every parent, even n_pts and min_dist >= 0.  Stated for the grid
\* resolution make_objects uses, where it already fails.
C10_Distinct ==
    (pc = "sp_returned" /\ sp_even /\ sp_args.n_smp = num_smp) =>
        \A j, k \in 1..Len(sp_out) : j < k => sp_out[j] # sp_out[k]

---------------------------------------------------------------------------
(* Properties of make_objects (Spec)                                       *)

NumNeg(l) == Cardinality({ k \in 1..Len(l) : l[k][1] < 0 })
NumPos(l) == Cardinality({ k \in 1..Len(l) : l[k][1] > 0 })
NumZero(l) == Cardinality({ k \in 1..Len(l) : l[k][1] = 0 })

\* 8 + 8*4 + 8*4*2
FullCount ==
    meta_n[1] + meta_n[1] * meta_n[2] + meta_n[1] * meta_n[2] * meta_n[3]

RootNotABlob == \A k \in 1..Len(raw_coords) : untag(raw_coords[k]) # << 0, 0, 0 >>

\* C3 as stated: with level counts (8,4,2) and grid resolution 20 the blob
\* list before symmetrization has 8 + 8*4 + 8*4*2 = 104 entries, none of them
\* the root.
C3_Original ==
    (pc = "built") => (Len(raw_coords) = FullCount /\ RootNotABlob)

\* the level-0 shell around the root has at least meta_n[0]/2 candidates on
\* each side beyond min_dist
Level0PoolsSuffice ==
    /\ NumLeftOf(vertices(num_smp, meta_d[1]), min_dist) >= meta_n[1] \div 2
    /\ NumRightOf(vertices(num_smp, meta_d[1]), min_dist) >= meta_n[1] \div 2

\* C3 amended: with level counts (8,4,2) and grid resolution 20, and a
\* min_dist that leaves at least 4 candidates on each side of the plane in the
\* level-0 shell (the default 0.05 does), the blob list before symmetrization
\* has 104 entries; the root is never one of the blobs.
C3_Amended ==
    (pc = "built") =>
        /\ RootNotABlob
        /\ Level0PoolsSuffice => Len(raw_coords) = FullCount

C3_Witness ==
    /\ pc = "built"
    /\ min_dist = MinDistStep
    /\ Len(raw_coords) = FullCount
    /\ Len(raw_coords) = 104

\* C7: when level i has been processed the active list is exactly the points
\* produced at that level, in production order, and the sampler was called
\* once for each point that was active when the level started, in order, and
\* for no other point.
C7_LevelReplacesParents ==
    (pc = "for_i" /\ i >= 1) =>
        /\ loc_pts = produced
        /\ called = cur_loc_pts
        /\ Len(called) = n_q

\* after level 1: 8 parents were sampled and their 32 children are active
C7_Witness ==
    /\ pc = "for_i"
    /\ i = 2
    /\ Len(called) = meta_n[1]
    /\ Len(loc_pts) = meta_n[1] * meta_n[2]
    /\ loc_pts = produced

\* C9: unless sphere_pts fails an assertion, after every level the blob list
\* has no blob with x = 0 and as many blobs with x < 0 as with x > 0; the
\* assertion of symmetrize never fails and the symmetrized list is as long as
\* the list it was made from.
C9_Balanced ==
    /\ (pc = "for_i") =>
          (NumZero(meta_coords) = 0 /\ NumNeg(meta_coords) = NumPos(meta_coords))
    /\ pc # "assert_symmetrize"
    /\ (pc = "built" /\ ~asymmetric) => Len(meta_coords) = Len(raw_coords)

C9_Witness ==
    /\ pc = "built"
    /\ ~asymmetric
    /\ Len(raw_coords) = FullCount
    /\ Len(meta_coords) = FullCount
    /\ meta_coords # raw_coords

---------------------------------------------------------------------------
(* Properties of symmetrize (SymSpec)                                      *)

\* the positions of a list that hold a blob with x < 0, in order
LeftIdx(l) == { k \in 1..Len(l) : l[k][1] < 0 }
\* position in l of the n-th blob with x < 0
NthLeft(l, n) ==
    CHOOSE k \in LeftIdx(l) : Cardinality({ m \in LeftIdx(l) : m <= k }) = n

\* out is the x < 0 blobs of l in order, then their mirror images in order
IsLeftThenMirror(l, out) ==
    LET nl == Cardinality(LeftIdx(l))
    IN  /\ Len(out) = 2 * nl
        /\ \A n \in 1..nl :
              /\ out[n] = l[NthLeft(l, n)]
              /\ out[nl + n][1] = 0 - l[NthLeft(l, n)][1]
              /\ out[nl + n][2] = l[NthLeft(l, n)][2]
              /\ out[nl + n][3] = l[NthLeft(l, n)][3]
              /\ out[nl + n][4] = l[NthLeft(l, n)][4]

sy_returned == pc \in {"sy_once", "sy_twice", "sy_assert_again"}
sy_called == pc # "sy_call"

\* the list of the spec's scenario, [(-1,0,0,.2), (-2,1,0,.2)], and the list
\* the scenario says is returned
ScenarioIn == << << -1, 0, 0, 1 >>, << -2, 1, 0, 1 >> >>
ScenarioOut ==
    << << -1, 0, 0, 1 >>, << -2, 1, 0, 1 >>, << 1, 0, 0, 1 >>, << 2, 1, 0, 1 >> >>
\* a balanced list with the same x < 0 blobs
BalancedIn ==
    << << -1, 0, 0, 1 >>, << -2, 1, 0, 1 >>, << 1, 1, 0, 1 >>, << 0, 0, 0, 1 >> >>

\* C4 as stated: whenever symmetrize returns, the output is the x < 0 blobs in
\* input order followed by their mirror images (x negated, y, z, r kept); and
\* symmetrize([(-1,0,0,.2),(-2,1,0,.2)]) returns
\* [(-1,0,0,.2),(-2,1,0,.2),(1,0,0,.2),(2,1,0,.2)].
C4_Original ==
    /\ sy_returned => IsLeftThenMirror(sy_loc, sy_out)
    /\ (sy_called /\ sy_loc = ScenarioIn) => (sy_returned /\ sy_out = ScenarioOut)

\* C4 amended: whenever symmetrize returns, the output is the x < 0 blobs in
\* input order followed by their mirror images (x negated, y, z, r kept).
\* symmetrize([(-1,0,0,.2),(-2,1,0,.2)]) does not return: it fails the length
\* assertion, since 4 blobs would come from 2; on a balanced list with the
\* same x < 0 blobs, such as [(-1,0,0,.2),(-2,1,0,.2),(1,1,0,.2),(0,0,0,.2)],
\* it returns [(-1,0,0,.2),(-2,1,0,.2),(1,0,0,.2),(2,1,0,.2)].
C4_Amended ==
    /\ sy_returned => IsLeftThenMirror(sy_loc, sy_out)
    /\ (sy_called /\ sy_loc = ScenarioIn) => pc = "sy_assert"
    /\ (sy_called /\ sy_loc = BalancedIn) => (sy_returned /\ sy_out = ScenarioOut)

C4_Witness ==
    /\ pc = "sy_once"
    /\ sy_loc = BalancedIn
    /\ sy_out = ScenarioOut

\* how often blob b occurs in list l
Count(b, l) == Cardinality({ k \in 1..Len(l) : l[k] = b })
Elems(l) == { l[k] : k \in 1..Len(l) }
SameBag(l, m) == \A b \in Elems(l) \cup Elems(m) : Count(b, l) = Count(b, m)
Negated(l) == [ k \in 1..Len(l) |-> << 0 - l[k][1], l[k][2], l[k][3], l[k][4] >> ]
\* the multiset of blobs is unchanged by negating every x
IsSymmetric(l) == SameBag(l, Negated(l))

\* C5 as stated: on a list whose multiset of blobs is unchanged by negating
\* every x, symmetrize(L) and symmetrize(symmetrize(L)) both succeed and equal
\* L as multisets (so have its length).
C5_Original ==
    (sy_called /\ IsSymmetric(sy_loc)) =>
        /\ sy_returned
        /\ SameBag(sy_out, sy_loc)
        /\ Len(sy_out) = Len(sy_loc)
        /\ (pc # "sy_once") =>
              (pc = "sy_twice" /\ SameBag(sy_out2, sy_loc) /\ Len(sy_out2) = Len(sy_loc))

\* C5 amended: on a list whose multiset of blobs is unchanged by negating
\* every x and that has no blob with x = 0, symmetrize(L) and
\* symmetrize(symmetrize(L)) both succeed and equal L as multisets.
C5_Amended ==
    (sy_called /\ IsSymmetric(sy_loc) /\ NumZero(sy_loc) = 0) =>
        /\ sy_returned
        /\ SameBag(sy_out, sy_loc)
        /\ Len(sy_out) = Len(sy_loc)
        /\ (pc # "sy_once") =>
              (pc = "sy_twice" /\ SameBag(sy_out2, sy_loc) /\ Len(sy_out2) = Len(sy_loc))

\* a symmetric list that is not in left-then-mirror order, symmetrized twice
C5_Witness ==
    /\ pc = "sy_twice"
    /\ IsSymmetric(sy_loc)
    /\ Len(sy_loc) = MaxLen - (MaxLen % 2)
    /\ Len(sy_loc) > 0
    /\ sy_out # sy_loc
    /\ sy_out2 = sy_out

\* C6: symmetrize fails its assertion exactly when the blobs with x < 0 are
\* not half of the input; when it returns, the output is as long as the input,
\* its first half is made of input blobs with x < 0 and its second half of
\* their mirrored copies, so no input blob with x >= 0 is carried over as it is.
C6_LengthOrAbort ==
    sy_called =>
        /\ (pc = "sy_assert") <=> (2 * NumNeg(sy_loc) # Len(sy_loc))
        /\ sy_returned =>
              /\ Len(sy_out) = Len(sy_loc)
              /\ NumNeg(sy_out) = NumNeg(sy_loc)
              /\ NumPos(sy_out) = NumNeg(sy_loc)
              /\ \A k \in 1..NumNeg(sy_loc) :
                    /\ sy_out[k][1] < 0
                    /\ Count(sy_out[k], sy_loc) > 0
                    /\ sy_out[NumNeg(sy_loc) + k][1] = 0 - sy_out[k][1]

\* a returning call that discards a blob with x >= 0 which mirrors no x < 0 blob
C6_Witness ==
    /\ pc = "sy_once"
    /\ Len(sy_loc) = MaxLen - (MaxLen % 2)
    /\ \E k \in 1..Len(sy_loc) :
          sy_loc[k][1] >= 0 /\ Count(sy_loc[k], sy_out) = 0

===========================================================================
